---- MODULE Spec2Model ----
(***************************************************************************)
(* IMDb chart fetcher (main.go): the goroutines of one run of the program  *)
(* (main, parseTableData, one getTitleData and one getRating per row, one  *)
(* crawlForMoreInfo per row and its optional extended-summary task), the   *)
(* two kinds of channel, the two wait-groups and the text extraction the   *)
(* goroutines perform.  Text is modelled byte for byte: a Go string is a   *)
(* TLA+ string, an index is a 0-based byte offset and a slice expression   *)
(* that is out of range is a run-time panic that ends the process.         *)
(***************************************************************************)
EXTENDS Integers, Sequences, FiniteSets, Bags, TLC

(***************************************************************************)
(* Constants of main.go                                                    *)
(***************************************************************************)
imdb_url_Main == "https://www.imdb.com"
chart_url_Indian == "https://www.imdb.com/india/top-rated-indian-movies"
chart_url_Tamil == "https://www.imdb.com/india/top-rated-tamil-movies"
chart_url_Telugu == "https://www.imdb.com/india/top-rated-telugu-movies"

td_titleClass == "titleColumn"
td_ratingClass == "ratingColumn imdbRating"
releaseYear_class == "secondaryInfo"
summary_class == "summary_text"
field_separator == "<span class=\"ghost\">|</span>"

StatusOK == 200

(***************************************************************************)
(* Go string primitives (package strings, slice expressions)               *)
(***************************************************************************)
MinOf(S) == CHOOSE x \in S : \A y \in S : x <= y
MaxOf(S) == CHOOSE x \in S : \A y \in S : x >= y

\* the offsets at which sub occurs in s
Occurrences(s, sub) ==
    {i \in 0..(Len(s) - Len(sub)) : SubSeq(s, i + 1, i + Len(sub)) = sub}

\* strings.Index: offset of the first occurrence of sub in s, -1 if none
Index(s, sub) ==
    IF Occurrences(s, sub) = {} THEN -1 ELSE MinOf(Occurrences(s, sub))

\* strings.LastIndex: offset of the last occurrence of sub in s, -1 if none
LastIndex(s, sub) ==
    IF Occurrences(s, sub) = {} THEN -1 ELSE MaxOf(Occurrences(s, sub))

\* s[a:b] is legal in Go iff 0 <= a <= b <= len(s); otherwise it panics
SliceOK(s, a, b) == 0 <= a /\ a <= b /\ b <= Len(s)
Slice(s, a, b) == SubSeq(s, a + 1, b)

WhiteSpace == {" ", "\n", "\t", "\r"}

\* strings.TrimSpace
TrimSpace(s) ==
    LET keep == {i \in 1..Len(s) : SubSeq(s, i, i) \notin WhiteSpace}
    IN  IF keep = {} THEN "" ELSE SubSeq(s, MinOf(keep), MaxOf(keep))

\* strings.Join
RECURSIVE Join(_, _)
Join(lst, sep) ==
    IF Len(lst) = 0 THEN ""
    ELSE IF Len(lst) = 1 THEN lst[1]
    ELSE lst[1] \o sep \o Join(Tail(lst), sep)

Digits == {"0", "1", "2", "3", "4", "5", "6", "7", "8", "9"}
AllDigits(s) == \A i \in 1..Len(s) : SubSeq(s, i, i) \in Digits

DigitVal(c) ==
    CASE c = "0" -> 0 [] c = "1" -> 1 [] c = "2" -> 2 [] c = "3" -> 3
      [] c = "4" -> 4 [] c = "5" -> 5 [] c = "6" -> 6 [] c = "7" -> 7
      [] c = "8" -> 8 [] c = "9" -> 9


(***************************************************************************)
(* Go number parsing (package strconv).  A uint64 does not fit a TLC       *)
(* integer, so a uint64 value is kept as its canonical decimal text (no    *)
(* leading zero, "0" for zero) and compared digit by digit.                *)
(***************************************************************************)
MaxUint64 == "18446744073709551615"

\* s without its leading zeros ("0" when nothing else is left)
Canonical(s) ==
    LET nz == {i \in 1..Len(s) : SubSeq(s, i, i) # "0"}
    IN  IF nz = {} THEN "0" ELSE SubSeq(s, MinOf(nz), Len(s))

\* a > b for two canonical decimal texts
DecGreater(a, b) ==
    \/ Len(a) > Len(b)
    \/ /\ Len(a) = Len(b)
       /\ \E i \in 1..Len(a) :
            /\ SubSeq(a, 1, i - 1) = SubSeq(b, 1, i - 1)
            /\ DigitVal(SubSeq(a, i, i)) > DigitVal(SubSeq(b, i, i))

\* strconv.ParseUint(s, 10, 64): the value and the error.  A syntax error
\* returns 0; a value out of range returns the largest uint64 (ErrRange).
ParseUint(s) ==
    IF s = "" \/ ~AllDigits(s) THEN [val |-> "0", err |-> "syntax"]
    ELSE IF DecGreater(Canonical(s), MaxUint64)
         THEN [val |-> MaxUint64, err |-> "range"]
         ELSE [val |-> Canonical(s), err |-> "nil"]

RECURSIVE DecVal(_)
DecVal(s) ==
    IF s = "" THEN 0
    ELSE 10 * DecVal(SubSeq(s, 1, Len(s) - 1)) + DigitVal(SubSeq(s, Len(s), Len(s)))

MaxInt64 == "9223372036854775807"

\* strconv.Atoi(s): optional sign, then one or more decimal digits.  The
\* argument texts of the model have at most 9 significant digits, so the
\* value fits a TLC integer whenever it is computed.
Atoi(s) ==
    LET signed == Len(s) > 0 /\ SubSeq(s, 1, 1) \in {"+", "-"}
        body == IF signed THEN SubSeq(s, 2, Len(s)) ELSE s
        neg == signed /\ SubSeq(s, 1, 1) = "-"
    IN  IF body = "" \/ ~AllDigits(body) THEN [val |-> 0, err |-> "syntax"]
        ELSE IF DecGreater(Canonical(body), MaxInt64)
             THEN [val |-> 0, err |-> "range"]
             ELSE [val |-> IF neg THEN 0 - DecVal(Canonical(body))
                                  ELSE DecVal(Canonical(body)),
                   err |-> "nil"]

\* The float64 values of the model: a finite number is kept as its
\* canonical decimal text, the infinities and NaN as themselves.
ZeroFloat == [kind |-> "num", text |-> "0"]
PosInf == [kind |-> "inf", text |-> "+Inf"]
NegInf == [kind |-> "inf", text |-> "-Inf"]
NaN == [kind |-> "nan", text |-> "NaN"]

InfTexts == {"inf", "Inf", "INF", "+inf", "+Inf", "+INF",
             "infinity", "Infinity", "+Infinity"}
NegInfTexts == {"-inf", "-Inf", "-INF", "-infinity", "-Infinity"}
NaNTexts == {"nan", "NaN", "NAN"}

\* strconv.ParseFloat(s, 64) on the texts of the model: the special
\* values, and decimal literals  [sign] digits [. digits] [e [sign] digits]
\* with a digit in the mantissa.  The largest finite float64 is about
\* 1.8e308: a literal beyond it is out of range and ParseFloat returns
\* +-Inf with ErrRange (the literals of the model stay clear of the exact
\* boundary); one too small to be represented is 0.  Any other text is a
\* syntax error and returns 0.
ParseFloat(s) ==
    LET signed == Len(s) > 0 /\ SubSeq(s, 1, 1) \in {"+", "-"}
        neg == signed /\ SubSeq(s, 1, 1) = "-"
        body == IF signed THEN SubSeq(s, 2, Len(s)) ELSE s
        ePos == MinOf({i \in 1..Len(body) : SubSeq(body, i, i) \in {"e", "E"}}
                      \cup {Len(body) + 1})
        mant == SubSeq(body, 1, ePos - 1)
        expo == SubSeq(body, ePos + 1, Len(body))
        expSigned == Len(expo) > 0 /\ SubSeq(expo, 1, 1) \in {"+", "-"}
        expNeg == expSigned /\ SubSeq(expo, 1, 1) = "-"
        expDig == IF expSigned THEN SubSeq(expo, 2, Len(expo)) ELSE expo
        dot == MinOf({i \in 1..Len(mant) : SubSeq(mant, i, i) = "."}
                     \cup {Len(mant) + 1})
        ip == SubSeq(mant, 1, dot - 1)
        fp == SubSeq(mant, dot + 1, Len(mant))
        fnz == {i \in 1..Len(fp) : SubSeq(fp, i, i) # "0"}
        frac == IF fnz = {} THEN "" ELSE SubSeq(fp, 1, MaxOf(fnz))
        zero == Canonical(ip) = "0" /\ frac = ""
        mtext == (IF neg THEN "-" ELSE "") \o Canonical(ip)
                 \o (IF frac = "" THEN "" ELSE "." \o frac)
        hasExp == ePos <= Len(body)
        \* the decimal exponent of the leading non-zero digit
        lead == IF Canonical(ip) # "0" THEN Len(Canonical(ip)) - 1
                ELSE 0 - MinOf(fnz \cup {Len(fp) + 1})
        leadDigit == IF Canonical(ip) # "0" THEN SubSeq(Canonical(ip), 1, 1)
                     ELSE SubSeq(fp, MinOf(fnz \cup {Len(fp)}), MinOf(fnz \cup {Len(fp)}))
        expVal == IF hasExp /\ Len(Canonical(expDig)) <= 4
                  THEN DecVal(Canonical(expDig)) ELSE 0
        magnitude == IF expNeg THEN lead - expVal ELSE lead + expVal
        tooBig == /\ ~zero
                  /\ \/ hasExp /\ ~expNeg /\ Len(Canonical(expDig)) > 4
                     \/ magnitude > 308
                     \/ magnitude = 308 /\ leadDigit # "1"
        tooSmall == /\ ~zero
                    /\ \/ hasExp /\ expNeg /\ Len(Canonical(expDig)) > 4
                       \/ magnitude < -324
        wellFormed == /\ (ip # "" \/ fp # "") /\ AllDigits(ip) /\ AllDigits(fp)
                      /\ (hasExp => expDig # "" /\ AllDigits(expDig))
    IN  IF s \in InfTexts THEN [val |-> PosInf, err |-> "nil"]
        ELSE IF s \in NegInfTexts THEN [val |-> NegInf, err |-> "nil"]
        ELSE IF s \in NaNTexts THEN [val |-> NaN, err |-> "nil"]
        ELSE IF ~wellFormed THEN [val |-> ZeroFloat, err |-> "syntax"]
        ELSE IF tooBig
             THEN [val |-> IF neg THEN NegInf ELSE PosInf, err |-> "range"]
        ELSE IF tooSmall
             THEN [val |-> [kind |-> "num", text |-> IF neg THEN "-0" ELSE "0"],
                   err |-> "nil"]
        ELSE IF ~hasExp \/ zero \/ Canonical(expDig) = "0"
             THEN [val |-> [kind |-> "num", text |-> mtext], err |-> "nil"]
        ELSE [val |-> [kind |-> "num",
                       text |-> mtext \o "e" \o (IF expNeg THEN "-" ELSE "")
                                \o Canonical(expDig)],
              err |-> "nil"]

(***************************************************************************)
(* regexp.Split(s, -1) for the two patterns of main.go.  Both patterns     *)
(* match a literal followed by zero or more repetitions of one byte        *)
(* (`<tr>*` is "<tr" then any number of ">"; `</a>` has no repetition).    *)
(* Split returns the text before each match and the text after the last    *)
(* one; every match is non-empty, so no piece is dropped.                  *)
(***************************************************************************)
\* the offset just after the match that starts at offset i
RECURSIVE MatchEnd(_, _, _)
MatchEnd(s, i, rep) ==
    IF rep # "" /\ SubSeq(s, i + 1, i + 1) = rep THEN MatchEnd(s, i + 1, rep) ELSE i

RECURSIVE RegexSplit(_, _, _)
RegexSplit(s, lit, rep) ==
    LET i == Index(s, lit)
    IN  IF i = -1 THEN <<s>>
        ELSE <<SubSeq(s, 1, i)>>
             \o RegexSplit(SubSeq(s, MatchEnd(s, i + Len(lit), rep) + 1, Len(s)),
                           lit, rep)

(***************************************************************************)
(* The records of main.go                                                  *)
(***************************************************************************)
\* MovDetail{} (lines 87-91)
ZeroMovDetail == [Summary |-> "", Duration |-> "", Genre |-> ""]

\* ImdbChartData{} (lines 97-110): the zero value make() puts in each slot
ZeroChartData ==
    [Title |-> "", ReleaseYear |-> "0", MovDetail |-> ZeroMovDetail,
     Rating |-> ZeroFloat]

(***************************************************************************)
(* The text extraction of getTitleData (lines 221-251).  stage tells how   *)
(* far the function gets: "panic-early" is a slice out of range before the *)
(* crawler is started, "panic-late" one after it, "ok" none.               *)
(***************************************************************************)
getTitleDataParse(movieRec) ==
    LET tdtitleAttr == "<td class=\"" \o td_titleClass \o "\">"
        titleStrtIdx == Index(movieRec, tdtitleAttr) + Len(tdtitleAttr)
        ok1 == SliceOK(movieRec, titleStrtIdx, Len(movieRec))
        titleEndIdx ==
            Index(Slice(movieRec, titleStrtIdx, Len(movieRec)), "</td>") + titleStrtIdx
        ok2 == SliceOK(movieRec, titleStrtIdx, titleEndIdx)
        cell == Slice(movieRec, titleStrtIdx, titleEndIdx)
        moreInfoAttr == "<a href=\""
        urlStrtIdx == titleStrtIdx + Index(cell, moreInfoAttr) + Len(moreInfoAttr)
        ok3 == SliceOK(movieRec, urlStrtIdx, titleEndIdx)
        urlEndIdx == urlStrtIdx + Index(Slice(movieRec, urlStrtIdx, titleEndIdx), "\"")
        ok4 == SliceOK(movieRec, urlStrtIdx, urlEndIdx)
        moreInfoURL == imdb_url_Main \o Slice(movieRec, urlStrtIdx, urlEndIdx)
        tA == titleStrtIdx + Index(cell, ">") + 1
        tB == titleStrtIdx + LastIndex(cell, "</a>")
        ok5 == SliceOK(movieRec, tA, tB)
        releaseDateAttr == "<span class=\"" \o releaseYear_class \o "\">"
        yA == titleStrtIdx + Index(cell, releaseDateAttr) + Len(releaseDateAttr) + 1
        yB == titleStrtIdx + LastIndex(cell, "</span>") - 1
        ok6 == SliceOK(movieRec, yA, yB)
        year == ParseUint(Slice(movieRec, yA, yB))
    IN  IF ~(ok1 /\ ok2 /\ ok3 /\ ok4)
        THEN [stage |-> "panic-early", url |-> "", Title |-> "",
              ReleaseYear |-> "0", yearErr |-> "nil"]
        ELSE IF ~ok5
        THEN [stage |-> "panic-late", url |-> moreInfoURL, Title |-> "",
              ReleaseYear |-> "0", yearErr |-> "nil"]
        ELSE IF ~ok6
        THEN [stage |-> "panic-late", url |-> moreInfoURL,
              Title |-> Slice(movieRec, tA, tB),
              ReleaseYear |-> "0", yearErr |-> "nil"]
        ELSE [stage |-> "ok", url |-> moreInfoURL,
              Title |-> Slice(movieRec, tA, tB),
              ReleaseYear |-> year.val, yearErr |-> year.err]

(***************************************************************************)
(* The text extraction of getRating (lines 264-275)                        *)
(***************************************************************************)
getRatingParse(movieRec) ==
    LET tdRatingAttr == "<td class=\"" \o td_ratingClass \o "\">"
        ratingStrtIdx == Index(movieRec, tdRatingAttr) + Len(tdRatingAttr)
        ok1 == SliceOK(movieRec, ratingStrtIdx, Len(movieRec))
        ratingEndIdx ==
            Index(Slice(movieRec, ratingStrtIdx, Len(movieRec)), "</td>") + ratingStrtIdx
        ok2 == SliceOK(movieRec, ratingStrtIdx, ratingEndIdx)
        cell == Slice(movieRec, ratingStrtIdx, ratingEndIdx)
        rA == ratingStrtIdx + Index(cell, ">") + 1
        rB == ratingStrtIdx + LastIndex(cell, "</strong>")
        ok3 == SliceOK(movieRec, rA, rB)
        imdbRate == ParseFloat(Slice(movieRec, rA, rB))
    IN  IF ~(ok1 /\ ok2 /\ ok3)
        THEN [stage |-> "panic", Rating |-> ZeroFloat, err |-> "nil"]
        ELSE [stage |-> "ok", Rating |-> imdbRate.val, err |-> imdbRate.err]

(***************************************************************************)
(* The text extraction of crawlForMoreInfo (lines 135-150, 180-200,        *)
(* 205-209) on the body of a detail page.  hasLink tells whether the       *)
(* summary holds a link to the full summary, fullSummaryUrl where to.      *)
(***************************************************************************)
\* lines 193-200: the text after the last ">" of each piece that has one
RECURSIVE genreList(_)
genreList(pieces) ==
    IF Len(pieces) = 0 THEN <<>>
    ELSE LET v == Head(pieces)
             genreCatIdx == LastIndex(v, ">")
         IN  IF genreCatIdx = -1 THEN genreList(Tail(pieces))
             ELSE <<Slice(v, genreCatIdx + 1, Len(v))>> \o genreList(Tail(pieces))

crawlParse(respBody) ==
    LET durEndIdx == Index(respBody, "</time>")
        ok1 == SliceOK(respBody, 0, durEndIdx)
        durStrtIdx == LastIndex(Slice(respBody, 0, durEndIdx), ">") + 1
        summaryDivAttr == "<div class=\"" \o summary_class \o "\">"
        summaryStrtIdx == Index(respBody, summaryDivAttr) + Len(summaryDivAttr)
        ok2 == SliceOK(respBody, summaryStrtIdx, Len(respBody))
        summaryEndIdx ==
            Index(Slice(respBody, summaryStrtIdx, Len(respBody)), "</div>")
            + summaryStrtIdx
        ok3 == SliceOK(respBody, summaryStrtIdx, summaryEndIdx)
        summaryData == TrimSpace(Slice(respBody, summaryStrtIdx, summaryEndIdx))
        lnkAttr == "<a href=\""
        newLnk == Index(summaryData, lnkAttr)
        newLnkEndIdx ==
            newLnk + Index(Slice(summaryData, newLnk + Len(lnkAttr), Len(summaryData)), ">")
        ok4 == newLnk = -1 \/ SliceOK(summaryData, newLnk + Len(lnkAttr), newLnkEndIdx)
        fullSummaryUrl ==
            imdb_url_Main \o Slice(summaryData, newLnk + Len(lnkAttr), newLnkEndIdx)
        ok5 == SliceOK(respBody, durEndIdx, Len(respBody))
        genreSecStrtIdx ==
            Index(Slice(respBody, durEndIdx, Len(respBody)), field_separator)
            + durEndIdx + Len(field_separator)
        ok6 == SliceOK(respBody, genreSecStrtIdx, Len(respBody))
        genreSecEndIdx ==
            Index(Slice(respBody, genreSecStrtIdx, Len(respBody)), field_separator)
            + genreSecStrtIdx
        ok7 == SliceOK(respBody, genreSecStrtIdx, genreSecEndIdx)
        genreCatLnks ==
            RegexSplit(Slice(respBody, genreSecStrtIdx, genreSecEndIdx), "</a>", "")
        ok8 == SliceOK(respBody, durStrtIdx, durEndIdx)
    IN  IF ~(ok1 /\ ok2 /\ ok3 /\ ok4)
        THEN [stage |-> "panic-early", hasLink |-> FALSE, fullSummaryUrl |-> "",
              detail |-> ZeroMovDetail]
        ELSE IF ~(ok5 /\ ok6 /\ ok7 /\ ok8)
        THEN [stage |-> "panic-late", hasLink |-> newLnk # -1,
              fullSummaryUrl |-> IF newLnk # -1 THEN fullSummaryUrl ELSE "",
              detail |-> ZeroMovDetail]
        ELSE [stage |-> "ok", hasLink |-> newLnk # -1,
              fullSummaryUrl |-> IF newLnk # -1 THEN fullSummaryUrl ELSE "",
              detail |-> [Summary |-> summaryData,
                          Duration |-> TrimSpace(Slice(respBody, durStrtIdx, durEndIdx)),
                          Genre |-> Join(genreList(genreCatLnks), ", ")]]

\* line 176: the expanded summary taken from the body of the summary page
summaryParse(respBody) ==
    LET a == Index(respBody, "<p>") + Len("<p>")
        b == Index(respBody, "</p>")
    IN  IF SliceOK(respBody, a, b)
        THEN [stage |-> "ok", Summary |-> Slice(respBody, a, b)]
        ELSE [stage |-> "panic", Summary |-> ""]

\* lines 359-361: the table cut out of the body of the chart page
tableParse(body) ==
    LET tableStrtIdx == Index(body, "<table")
        tableEndIdx == Index(body, "</table>")
    IN  IF SliceOK(body, tableStrtIdx, tableEndIdx + Len("</table>"))
        THEN [stage |-> "ok",
              table |-> Slice(body, tableStrtIdx, tableEndIdx + Len("</table>"))]
        ELSE [stage |-> "panic", table |-> ""]

(***************************************************************************)
(* The inputs of a run: the command line and the web.  The web is what     *)
(* http.Get and ioutil.ReadAll give for a URL: a transport error (no       *)
(* response), or a status, a body and whether reading the body fails (the  *)
(* body is then what was read before the failure).                         *)
(***************************************************************************)
Response(err, status, readErr, body) ==
    [err |-> err, status |-> status, readErr |-> readErr, body |-> body]

\* no response yet
NoResponse == Response(FALSE, 0, FALSE, "")

NotFoundPage == "<html><h1>404 Not Found</h1></html>"

\* one row of the chart table, as the chart pages of the site write it
RowText(link, name, year, rate) ==
    "<tr><td class=\"posterColumn\"></td><td class=\"titleColumn\">1. <a href=\""
    \o link \o "\" title=\"dir\">" \o name
    \o "</a> <span class=\"secondaryInfo\">(" \o year \o ")</span></td>"
    \o "<td class=\"ratingColumn imdbRating\"><strong title=\"votes\">" \o rate
    \o "</strong></td></tr>"

\* a detail page: running time, genres, summary
DetailPage(duration, genres, summary) ==
    "<html><div class=\"subtext\">PG<span class=\"ghost\">|</span><time datetime=\"PT1M\"> "
    \o duration \o " </time><span class=\"ghost\">|</span>" \o genres
    \o "<span class=\"ghost\">|</span>2010</div><div class=\"summary_text\"> "
    \o summary \o " </div></html>"

GenreLink(name) == "<a href=\"/genre/" \o name \o "\">" \o name \o "</a>"

\* the kinds of row of the model: the link of the row decides what its
\* detail page does (see Web), the year and rating texts what the parsers do
RowKinds ==
    << \* A: everything well-formed
       RowText("/title/a/", "Movie A", "2010", "8.5"),
       \* B: the summary of the detail page links to a full summary
       RowText("/title/b/", "Movie B", "1999", "9.1"),
       \* C: the year is not a number
       RowText("/title/a/", "Movie C", "20x0", "7.0"),
       \* D: the year is a number that does not fit 64 bits
       RowText("/title/a/", "Movie D", "99999999999999999999", "6.5"),
       \* E: the detail fetch fails in transport
       RowText("/title/e/", "Movie E", "2001", "8.0"),
       \* N: the detail page answers 404 with an error page
       RowText("/title/n/", "Movie N", "2002", "8.1"),
       \* M: the detail page answers 503 with the page in the body
       RowText("/title/m/", "Movie M", "2003", "8.2"),
       \* R: reading the detail page fails after the whole page has arrived
       RowText("/title/r/", "Movie R", "2004", "8.3"),
       \* T: reading the detail page fails before anything has arrived
       RowText("/title/t/", "Movie T", "2005", "8.4"),
       \* S: reading the full-summary page fails after it has arrived
       RowText("/title/s/", "Movie S", "2006", "8.6"),
       \* Q: reading the detail page fails after a page whose summary links
       \* to a full summary has arrived
       RowText("/title/q/", "Movie Q", "2007", "8.7"),
       \* F: the rating is not a number
       RowText("/title/a/", "Movie F", "2008", "n/a"),
       \* G: the rating is a number beyond the largest float64
       RowText("/title/a/", "Movie G", "2009", "1e999"),
       \* W: the full-summary page answers 404 with an error page
       RowText("/title/w/", "Movie W", "2011", "7.1"),
       \* X: the row has no rating cell
       "<tr><td class=\"titleColumn\">1. <a href=\"/title/a/\" title=\"dir\">Movie X</a>"
       \o " <span class=\"secondaryInfo\">(2012)</span></td></tr>",
       \* Y: the row has no title cell
       "<tr><td class=\"posterColumn\"></td><td class=\"ratingColumn imdbRating\">"
       \o "<strong title=\"votes\">7.2</strong></td></tr>",
       \* Z: the title cell has no year label
       "<tr><td class=\"titleColumn\">1. <a href=\"/title/a/\" title=\"dir\">Movie Z</a></td>"
       \o "<td class=\"ratingColumn imdbRating\"><strong title=\"votes\">7.3</strong></td></tr>" >>

SummaryLink(path) == "Short. <a href=\"" \o path \o "?ref_=tt_ov_pl\">See full summary</a>"

PageA == DetailPage("2h 22min", GenreLink("Drama"), "Two men bond.")
PageB == DetailPage("1h 30min", GenreLink("Crime") \o ", " \o GenreLink("Drama"),
                    SummaryLink("/title/b/plotsummary"))
PageS == DetailPage("1h 45min", GenreLink("Action"),
                    SummaryLink("/title/s/plotsummary"))
PageQ == DetailPage("1h 50min", GenreLink("Comedy"),
                    SummaryLink("/title/q/plotsummary"))
PageW == DetailPage("1h 55min", GenreLink("Horror"),
                    SummaryLink("/title/w/plotsummary"))

\* the response of the web to a GET of url
Web(url) ==
    CASE url = imdb_url_Main \o "/title/a/" -> Response(FALSE, 200, FALSE, PageA)
      [] url = imdb_url_Main \o "/title/b/" -> Response(FALSE, 200, FALSE, PageB)
      [] url = imdb_url_Main \o "/title/b/plotsummary?ref_=" ->
            Response(FALSE, 200, FALSE, "<html><p>The full story of B.</p></html>")
      [] url = imdb_url_Main \o "/title/e/" -> Response(TRUE, 0, FALSE, "")
      [] url = imdb_url_Main \o "/title/m/" -> Response(FALSE, 503, FALSE, PageA)
      [] url = imdb_url_Main \o "/title/r/" -> Response(FALSE, 200, TRUE, PageA)
      [] url = imdb_url_Main \o "/title/t/" -> Response(FALSE, 200, TRUE, "")
      [] url = imdb_url_Main \o "/title/s/" -> Response(FALSE, 200, FALSE, PageS)
      [] url = imdb_url_Main \o "/title/s/plotsummary?ref_=" ->
            Response(FALSE, 200, TRUE, "<html><p>The full story of S.</p></html>")
      [] url = imdb_url_Main \o "/title/w/" -> Response(FALSE, 200, FALSE, PageW)
      [] url = imdb_url_Main \o "/title/q/" -> Response(FALSE, 200, TRUE, PageQ)
      [] url = imdb_url_Main \o "/title/q/plotsummary?ref_=" ->
            Response(FALSE, 200, FALSE, "<html><p>The full story of Q.</p></html>")
      [] OTHER -> Response(FALSE, 404, FALSE, NotFoundPage)

\* a chart page holding the rows kinds[1], kinds[2], ... of RowKinds
RECURSIVE RowsText(_)
RowsText(kinds) ==
    IF Len(kinds) = 0 THEN ""
    ELSE RowKinds[Head(kinds)] \o RowsText(Tail(kinds))

ChartPage(kinds) ==
    "<html><table class=\"chart\"><thead><tr><th>Rank</th></tr></thead><tbody>"
    \o RowsText(kinds) \o "</tbody></table></html>"

\* Bounds of the model: the longest table and the largest count asked for
MaxRows == 2
MaxItemCount == 2

\* the row sequences of the chart pages of the model: up to MaxRows rows
\* of the kinds A and B, at most one of them replaced by another kind
RowSeqs ==
    {s \in UNION {[1..n -> 1..Len(RowKinds)] : n \in 0..MaxRows} :
        Cardinality({i \in DOMAIN s : s[i] > 2}) <= 1}

\* what the GET of the chart URL can give
ChartResponses ==
    {Response(FALSE, 200, FALSE, ChartPage(k)) : k \in RowSeqs}
    \cup {Response(TRUE, 0, FALSE, ""),
          Response(FALSE, 404, FALSE, NotFoundPage),
          Response(FALSE, 503, FALSE, ChartPage(<<1>>)),
          Response(FALSE, 200, TRUE, ChartPage(<<1>>)),
          \* a page without a table, and a table without a row
          Response(FALSE, 200, FALSE, NotFoundPage),
          Response(FALSE, 200, FALSE, "<html><table></table></html>")}

prog == "./imdb_chart_fetcher"

\* the command lines of the model (os.Args)
ArgLists ==
    {<<prog>>, <<prog, chart_url_Indian>>}
    \cup {<<prog, chart_url_Indian, c>> :
            c \in {"-1", "0", "abc", ""} \cup {ToString(n) : n \in 1..MaxItemCount}}
    \cup {<<prog, chart_url_Tamil, "1">>, <<prog, chart_url_Telugu, "2">>,
          <<prog, "https://www.imdb.com/chart/top", "1">>,
          <<prog, "", "abc">>}

(***************************************************************************)
(* encoding/json.Marshal of the batch (line 314).  The fields of the       *)
(* embedded structs are flattened in declaration order; a string is quoted *)
(* and escaped (HTML-safe escaping included), a uint64 is written in       *)
(* decimal, a finite float64 as its shortest decimal text; an infinite or  *)
(* NaN float64 is an UnsupportedValueError.                                *)
(***************************************************************************)
EscapeByte(c) ==
    CASE c = "\"" -> "\\\""
      [] c = "\\" -> "\\\\"
      [] c = "\n" -> "\\n"
      [] c = "\r" -> "\\r"
      [] c = "\t" -> "\\t"
      [] c = "<" -> "\\u003c"
      [] c = ">" -> "\\u003e"
      [] c = "&" -> "\\u0026"
      [] OTHER -> c

RECURSIVE EscapeFrom(_, _)
EscapeFrom(s, i) ==
    IF i > Len(s) THEN "" ELSE EscapeByte(SubSeq(s, i, i)) \o EscapeFrom(s, i + 1)

JsonString(s) == "\"" \o EscapeFrom(s, 1) \o "\""

JsonObject(d) ==
    "{\"title\":" \o JsonString(d.Title)
    \o ",\"movie_release_year\":" \o d.ReleaseYear
    \o ",\"summary\":" \o JsonString(d.MovDetail.Summary)
    \o ",\"duration\":" \o JsonString(d.MovDetail.Duration)
    \o ",\"genre\":" \o JsonString(d.MovDetail.Genre)
    \o ",\"imdb_rating\":" \o d.Rating.text \o "}"

RECURSIVE JsonElems(_)
JsonElems(batch) ==
    IF Len(batch) = 0 THEN ""
    ELSE IF Len(batch) = 1 THEN JsonObject(batch[1])
    ELSE JsonObject(batch[1]) \o "," \o JsonElems(Tail(batch))

Marshal(batch) ==
    IF \E i \in 1..Len(batch) : batch[i].Rating.kind # "num"
    THEN [err |-> "UnsupportedValueError", text |-> ""]
    ELSE [err |-> "nil", text |-> "[" \o JsonElems(batch) \o "]"]

(***************************************************************************)
(* main: argument checks (lines 334-342) and the checks of the chart fetch *)
(* (lines 345-356).  Each gives the place of the log.Fatal it runs into,   *)
(* "" when it passes.                                                      *)
(***************************************************************************)
\* validateUrl as a check of the site only: any URL of the site passes
validateUrl_anyOfSite(arg1) ==
    SubSeq(arg1, 1, Len(imdb_url_Main)) = imdb_url_Main

\* validateUrl (lines 324-330): the URL is one of the three chart URLs
validateUrl(arg1) == arg1 \in {chart_url_Indian, chart_url_Telugu, chart_url_Tamil}

\* os.Args is 0-based
OsArg(a, n) == a[n + 1]

mainArgsFatal(a) ==
    IF Len(a) < 3 THEN "main:args"
    ELSE IF ~validateUrl(OsArg(a, 1)) THEN "validateUrl"
    ELSE IF Atoi(OsArg(a, 2)).err # "nil" THEN "main:Atoi"
    ELSE ""

\* the checks of the chart fetch without the check of the status (as the
\* crawler has it: logged, not fatal)
mainFetchFatal_statusLogged(resp) ==
    IF resp.err THEN "main:Get"
    ELSE IF resp.readErr THEN "main:ReadAll"
    ELSE ""

mainFetchFatal(resp) ==
    IF resp.err THEN "main:Get"
    ELSE IF resp.status # StatusOK THEN "main:StatusCode"
    ELSE IF resp.readErr THEN "main:ReadAll"
    ELSE ""

(***************************************************************************)
(* parseTableData up to the allocation of the batch (lines 289-299)        *)
(***************************************************************************)
\* lines 291-292: the row fragments, the first two fragments discarded
rowFragments(table) ==
    LET all == RegexSplit(table, "<tr", ">")
    IN  IF Len(all) < 2 THEN [stage |-> "panic", recSlc |-> <<>>]
        ELSE [stage |-> "ok", recSlc |-> SubSeq(all, 3, Len(all))]

\* lines 294-297: the count clamped to the rows there are
clamp(item_count, recSlc) ==
    IF item_count > Len(recSlc) THEN Len(recSlc) ELSE item_count

(***************************************************************************)
(* The extraction results of the goroutines that run concurrently,         *)
(* tabulated once for the texts of the model: their actions look a text up *)
(* instead of scanning it again in every state.                            *)
(***************************************************************************)
Range(f) == {f[x] : x \in DOMAIN f}

\* the function that maps each x of S to F(x), as an explicit table
RECURSIVE Tabulate(_, _)
Tabulate(F(_), S) ==
    IF S = {} THEN <<>>
    ELSE LET x == CHOOSE y \in S : TRUE
         IN  (x :> F(x)) @@ Tabulate(F, S \ {x})

\* the tables main can cut out of a chart page, and their row fragments
tableOf == Tabulate(tableParse, {r.body : r \in ChartResponses})
Tables == {tableOf[b].table : b \in {c \in DOMAIN tableOf : tableOf[c].stage = "ok"}}
fragmentsOf == Tabulate(rowFragments, Tables)
Fragments == UNION {Range(fragmentsOf[t].recSlc) : t \in Tables}

titleOf == Tabulate(getTitleDataParse, Fragments)
ratingOf == Tabulate(getRatingParse, Fragments)
\* the bodies of the detail pages the rows link to
DetailBodies == {Web(titleOf[r].url).body : r \in Fragments}
crawlOf == Tabulate(crawlParse, DetailBodies)
\* the bodies of the full-summary pages the detail pages link to
SummaryBodies == {Web(crawlOf[b].fullSummaryUrl).body : b \in DetailBodies}
summaryOf == Tabulate(summaryParse, SummaryBodies)

\* the loop handing every goroutine the row after its own
launchArgs_nextRow(recSlc, i) ==
    [movieRec |-> recSlc[IF i + 2 <= Len(recSlc) THEN i + 2 ELSE Len(recSlc)],
     slot |-> i + 1]

\* the loop handing every goroutine the address of the first slot
launchArgs_sharedSlot(recSlc, i) == [movieRec |-> recSlc[i + 1], slot |-> 1]

\* the loop handing every goroutine the row the loop ends on
launchArgs_lastRow(recSlc, i) == [movieRec |-> recSlc[Len(recSlc)], slot |-> i + 1]

\* lines 301-307: what the i-th iteration (0-based) hands to the two
\* goroutines it starts: the fragment and the slot &imdbChartTable[i]
launchArgs(recSlc, i) == [movieRec |-> recSlc[i + 1], slot |-> i + 1]

(***************************************************************************)
(* The state of a run                                                      *)
(***************************************************************************)
VARIABLES
    args,           \* os.Args
    proc,           \* "running", or how the process ended: "exit0" (main
                    \* returned), "fatal" (log.Fatal), "panic" (run-time panic)
    exitAt,         \* the place of the fatal log or of the panic
    stdout,         \* the lines printed to standard output
    requested,      \* the URLs a GET has been issued to
    main,           \* the main goroutine: pc, item_count, the response to
                    \* the GET of the chart page
    parserChan,     \* the channel of main: state, sends, receives
    orch,           \* parseTableData: pc, table, recSlc, item_count, i,
                    \* the counter of its wait-group, the JSON text
    imdbChartTable, \* the batch
    title,          \* getTitleData of each index: pc, movieRec, slot
    rating,         \* getRating of each index: pc, movieRec, slot
    crawl,          \* crawlForMoreInfo of each index: pc, cUrl, respBody,
                    \* summaryData, the other fields, the counter of its wait-group
    summ,           \* the full-summary goroutine of each index: pc, url, respBody
    crawlChan,      \* the channel of each index: state, sends, receives
    outOfOrder,     \* history: a goroutine of some index has finished before
                    \* the goroutine of the same kind of a lower index
    wrote,          \* history: for each slot of the batch, the fields written
                    \* so far and the goroutine that wrote each
    started         \* history: the bag of the go statements executed, each
                    \* with the function started and the text handed to it

vars == <<args, proc, exitAt, stdout, requested, main, parserChan, orch,
          imdbChartTable, title, rating, crawl, summ, crawlChan, outOfOrder,
          wrote, started>>

NoChan == [state |-> "none", sends |-> 0, recvs |-> 0]
NoProc == [pc |-> "none", movieRec |-> "", slot |-> 0]
NoCrawl == [pc |-> "none", cUrl |-> "", respBody |-> "", summaryData |-> "",
            detail |-> ZeroMovDetail, wg |-> 0]
NoSumm == [pc |-> "none", url |-> "", respBody |-> ""]
NoOrch == [pc |-> "none", table |-> "", recSlc |-> <<>>, item_count |-> 0,
           i |-> 0, wg |-> 0, imdbChart |-> ""]

Init ==
    /\ args \in ArgLists
    /\ proc = "running"
    /\ exitAt = ""
    /\ stdout = <<>>
    /\ requested = {}
    /\ main = [pc |-> "args", item_count |-> 0, resp |-> NoResponse]
    /\ parserChan = NoChan
    /\ orch = NoOrch
    /\ imdbChartTable = <<>>
    /\ title = <<>>
    /\ rating = <<>>
    /\ crawl = <<>>
    /\ summ = <<>>
    /\ crawlChan = <<>>
    /\ outOfOrder = FALSE
    /\ wrote = <<>>
    /\ started = EmptyBag

\* the process ends: log.Fatal (exit status 1) or a panic (exit status 2)
Fatal(where) == proc' = "fatal" /\ exitAt' = where
Panic(where) == proc' = "panic" /\ exitAt' = where

Rows == 1..Len(imdbChartTable)

\* a write of a field of a slot by the goroutine of index k running fn
Write(field, fn, k) == [field |-> field, by |-> <<fn, k>>]

\* a go statement: the function started and the text it is handed
Go(fn, arg) == SetToBag({[task |-> fn, arg |-> arg]})

\* a wait that returns at once, whatever the counter
wgWait_noWait(counter) == TRUE

\* lines 202 and 311: wg.Wait returns once the counter is zero
wgWait(counter) == counter = 0

(***************************************************************************)
(* main                                                                    *)
(***************************************************************************)
\* lines 334-342
MainArgs ==
    /\ proc = "running" /\ main.pc = "args"
    /\ IF mainArgsFatal(args) # ""
       THEN Fatal(mainArgsFatal(args)) /\ UNCHANGED main
       ELSE /\ main' = [main EXCEPT !.pc = "get",
                                    !.item_count = Atoi(OsArg(args, 2)).val]
            /\ UNCHANGED <<proc, exitAt>>
    /\ UNCHANGED <<outOfOrder, wrote, started, args, stdout, requested, parserChan, orch, imdbChartTable,
                   title, rating, crawl, summ, crawlChan>>

\* lines 345-366: the GET of the chart page returns; main cuts the table
\* out, makes parserChan and starts parseTableData
MainGet ==
    /\ proc = "running" /\ main.pc = "get"
    /\ requested' = requested \cup {OsArg(args, 1)}
    /\ \E resp \in ChartResponses :
         IF mainFetchFatal(resp) # ""
         THEN /\ Fatal(mainFetchFatal(resp))
              /\ main' = [main EXCEPT !.resp = resp]
              /\ UNCHANGED <<parserChan, orch>>
         ELSE IF tableOf[resp.body].stage = "panic"
         THEN /\ Panic("main:table")
              /\ main' = [main EXCEPT !.resp = resp]
              /\ UNCHANGED <<parserChan, orch>>
         ELSE /\ main' = [main EXCEPT !.pc = "recv", !.resp = resp]
              /\ parserChan' = [NoChan EXCEPT !.state = "open"]
              /\ orch' = [NoOrch EXCEPT !.pc = "start",
                                        !.table = tableOf[resp.body].table,
                                        !.item_count = main.item_count]
              /\ UNCHANGED <<proc, exitAt>>
    /\ UNCHANGED <<outOfOrder, wrote, started, args, stdout, imdbChartTable, title, rating, crawl, summ,
                   crawlChan>>

\* line 369: main returns; the deferred close(parserChan) runs and the
\* process exits with status 0, ending every goroutine still running
MainReturn ==
    /\ proc = "running" /\ main.pc = "ret"
    /\ main' = [main EXCEPT !.pc = "done"]
    /\ parserChan' = [parserChan EXCEPT !.state = "closed"]
    /\ proc' = "exit0"
    /\ UNCHANGED <<outOfOrder, wrote, started, args, exitAt, stdout, requested, orch, imdbChartTable, title,
                   rating, crawl, summ, crawlChan>>

(***************************************************************************)
(* parseTableData                                                          *)
(***************************************************************************)
\* lines 289-299: split, clamp, allocate
PT_Start ==
    /\ proc = "running" /\ orch.pc = "start"
    /\ LET f == fragmentsOf[orch.table]
           n == clamp(orch.item_count, f.recSlc)
       IN  IF f.stage = "panic"
           THEN /\ Panic("parseTableData:recSlc[2:]")
                /\ UNCHANGED <<orch, imdbChartTable, title, rating, crawl, summ,
                               crawlChan, wrote>>
           ELSE IF n < 0
           THEN /\ Panic("parseTableData:make")
                /\ UNCHANGED <<orch, imdbChartTable, title, rating, crawl, summ,
                               crawlChan, wrote>>
           ELSE /\ orch' = [orch EXCEPT !.pc = "loop", !.recSlc = f.recSlc,
                                        !.item_count = n, !.i = 0]
                /\ imdbChartTable' = [k \in 1..n |-> ZeroChartData]
                /\ title' = [k \in 1..n |-> NoProc]
                /\ rating' = [k \in 1..n |-> NoProc]
                /\ crawl' = [k \in 1..n |-> NoCrawl]
                /\ summ' = [k \in 1..n |-> NoSumm]
                /\ crawlChan' = [k \in 1..n |-> NoChan]
                /\ wrote' = [k \in 1..n |-> {}]
                /\ UNCHANGED <<proc, exitAt>>
    /\ UNCHANGED <<outOfOrder, started, args, stdout, requested, main, parserChan>>

\* the loop without the break at item_count
LoopGoesOn_noBreak == orch.i < Len(orch.recSlc)

\* the loop of lines 301-308 goes on
LoopGoesOn == orch.i < Len(orch.recSlc) /\ orch.i # orch.item_count

\* lines 305-307: one iteration starts the two goroutines of index i
PT_Launch ==
    /\ proc = "running" /\ orch.pc = "loop" /\ LoopGoesOn
    /\ LET a == launchArgs(orch.recSlc, orch.i)
           k == orch.i + 1
       IN  /\ title' = [title EXCEPT ![k] =
                           [pc |-> "start", movieRec |-> a.movieRec, slot |-> a.slot]]
           /\ rating' = [rating EXCEPT ![k] =
                           [pc |-> "start", movieRec |-> a.movieRec, slot |-> a.slot]]
    /\ orch' = [orch EXCEPT !.i = @ + 1, !.wg = @ + 2]
    /\ started' = started (+) Go("getTitleData", launchArgs(orch.recSlc, orch.i).movieRec)
                          (+) Go("getRating", launchArgs(orch.recSlc, orch.i).movieRec)
    /\ UNCHANGED <<outOfOrder, wrote, args, proc, exitAt, stdout, requested, main, parserChan,
                   imdbChartTable, crawl, summ, crawlChan>>

\* lines 311-317: wg.Wait returns once the counter is zero; the batch is
\* serialized, which is fatal when it fails
PT_Wait ==
    /\ proc = "running" /\ orch.pc = "loop" /\ ~LoopGoesOn
    /\ wgWait(orch.wg)
    /\ IF Marshal(imdbChartTable).err # "nil"
       THEN Fatal("parseTableData:Marshal") /\ UNCHANGED orch
       ELSE /\ orch' = [orch EXCEPT !.pc = "send",
                                    !.imdbChart = Marshal(imdbChartTable).text]
            /\ UNCHANGED <<proc, exitAt>>
    /\ UNCHANGED <<outOfOrder, wrote, started, args, stdout, requested, main, parserChan, imdbChartTable,
                   title, rating, crawl, summ, crawlChan>>

\* lines 320 and 368: the send of parseTableData meets the receive of main,
\* which prints what it receives
PT_Send ==
    /\ proc = "running" /\ orch.pc = "send"
    /\ IF parserChan.state = "closed"
       THEN /\ Panic("parseTableData:send on closed channel")
            /\ parserChan' = [parserChan EXCEPT !.sends = @ + 1]
            /\ UNCHANGED <<orch, main, stdout>>
       ELSE /\ main.pc = "recv"
            /\ parserChan' = [parserChan EXCEPT !.sends = @ + 1, !.recvs = @ + 1]
            /\ orch' = [orch EXCEPT !.pc = "done"]
            /\ main' = [main EXCEPT !.pc = "ret"]
            /\ stdout' = Append(stdout, orch.imdbChart)
            /\ UNCHANGED <<proc, exitAt>>
    /\ UNCHANGED <<outOfOrder, wrote, started, args, requested, imdbChartTable, title,
                   rating, crawl, summ, crawlChan>>

(***************************************************************************)
(* getTitleData, getRating, crawlForMoreInfo and the full-summary task     *)
(***************************************************************************)
\* lines 221-251: getTitleData runs up to its receive.  It starts the
\* crawler (lines 234-236) and writes the title and the year to its slot.
GT_Start(k) ==
    /\ proc = "running" /\ title[k].pc = "start"
    /\ LET p == titleOf[title[k].movieRec]
           t == title[k].slot
       IN  IF p.stage = "panic-early"
           THEN /\ Panic("getTitleData:slice")
                /\ UNCHANGED <<title, crawl, crawlChan, imdbChartTable, wrote, started>>
           ELSE /\ crawlChan' = [crawlChan EXCEPT ![k].state = "open"]
                /\ crawl' = [crawl EXCEPT ![k].pc = "get", ![k].cUrl = p.url]
                /\ started' = started (+) Go("crawlForMoreInfo", p.url)
                /\ IF p.stage = "panic-late"
                   THEN /\ Panic("getTitleData:slice")
                        /\ imdbChartTable' =
                              [imdbChartTable EXCEPT ![t].Title = p.Title]
                        /\ wrote' = [wrote EXCEPT ![t] =
                                        @ \cup {Write("Title", "getTitleData", k)}]
                        /\ UNCHANGED title
                   ELSE /\ imdbChartTable' =
                              [imdbChartTable EXCEPT ![t].Title = p.Title,
                                                     ![t].ReleaseYear = p.ReleaseYear]
                        /\ wrote' = [wrote EXCEPT ![t] =
                                        @ \cup {Write("Title", "getTitleData", k),
                                                Write("ReleaseYear", "getTitleData", k)}]
                        /\ title' = [title EXCEPT ![k].pc = "recv"]
                        /\ UNCHANGED <<proc, exitAt>>
    /\ UNCHANGED <<outOfOrder, args, stdout, requested, main, parserChan, orch, rating, summ>>

\* the receive of getTitleData writing the record to the next slot that
\* has no detail record yet, in the order the records arrive
Receive_completionOrder(k, v) ==
    LET next == Cardinality({j \in Rows : title[j].pc = "done"}) + 1
    IN  /\ title[k].pc = "recv"
        /\ imdbChartTable' = [imdbChartTable EXCEPT ![next].MovDetail = v]
        /\ wrote' = [wrote EXCEPT ![next] =
                        @ \cup {Write("MovDetail", "getTitleData", k)}]
        /\ title' = [title EXCEPT ![k].pc = "done"]
        /\ crawlChan' = [crawlChan EXCEPT ![k].state = "closed",
                                          ![k].sends = @ + 1, ![k].recvs = @ + 1]
        /\ orch' = [orch EXCEPT !.wg = @ - 1]
        /\ outOfOrder' = (outOfOrder \/ \E j \in 1..(k - 1) : title[j].pc # "done")

\* lines 254-255 and the deferred calls of lines 219 and 235: getTitleData
\* receives v from its channel, writes it to its slot, closes the channel
\* and signals the wait-group.  Part of the action of the sender.
Receive(k, v) ==
    /\ title[k].pc = "recv"
    /\ imdbChartTable' = [imdbChartTable EXCEPT ![title[k].slot].MovDetail = v]
    /\ wrote' = [wrote EXCEPT ![title[k].slot] =
                    @ \cup {Write("MovDetail", "getTitleData", k)}]
    /\ title' = [title EXCEPT ![k].pc = "done"]
    /\ crawlChan' = [crawlChan EXCEPT ![k].state = "closed",
                                      ![k].sends = @ + 1, ![k].recvs = @ + 1]
    /\ orch' = [orch EXCEPT !.wg = @ - 1]
    /\ outOfOrder' = (outOfOrder \/ \E j \in 1..(k - 1) : title[j].pc # "done")

\* a send on a closed channel panics
SendOnClosed(k, where) ==
    /\ Panic(where)
    /\ crawlChan' = [crawlChan EXCEPT ![k].sends = @ + 1]
    /\ UNCHANGED <<imdbChartTable, title, orch, outOfOrder, wrote>>

\* lines 260-276: getRating
GetRating(k) ==
    /\ proc = "running" /\ rating[k].pc = "start"
    /\ LET p == ratingOf[rating[k].movieRec]
       IN  IF p.stage = "panic"
           THEN /\ Panic("getRating:slice")
                /\ UNCHANGED <<rating, imdbChartTable, orch, outOfOrder, wrote>>
           ELSE /\ imdbChartTable' =
                      [imdbChartTable EXCEPT ![rating[k].slot].Rating = p.Rating]
                /\ wrote' = [wrote EXCEPT ![rating[k].slot] =
                                @ \cup {Write("Rating", "getRating", k)}]
                /\ rating' = [rating EXCEPT ![k].pc = "done"]
                /\ orch' = [orch EXCEPT !.wg = @ - 1]
                /\ outOfOrder' =
                      (outOfOrder \/ \E j \in 1..(k - 1) : rating[j].pc # "done")
                /\ UNCHANGED <<proc, exitAt>>
    /\ UNCHANGED <<started, args, stdout, requested, main, parserChan, title, crawl,
                   summ, crawlChan>>

\* lines 135-200: the crawler works on the body it has read, starts the
\* full-summary task when the summary links to one, and reaches wg.Wait
CrawlBody(k, respBody) ==
    LET p == crawlOf[respBody]
    IN  IF p.stage = "panic-early"
        THEN Panic("crawlForMoreInfo:slice") /\ UNCHANGED <<crawl, summ, started>>
        ELSE /\ summ' = IF p.hasLink
                        THEN [summ EXCEPT ![k].pc = "get", ![k].url = p.fullSummaryUrl]
                        ELSE summ
             /\ started' = IF p.hasLink
                           THEN started (+) Go("crawlForMoreInfo.func1", p.fullSummaryUrl)
                           ELSE started
             /\ IF p.stage = "panic-late"
                THEN Panic("crawlForMoreInfo:slice") /\ UNCHANGED crawl
                ELSE /\ crawl' = [crawl EXCEPT ![k].pc = "wait",
                                               ![k].respBody = respBody,
                                               ![k].summaryData = p.detail.Summary,
                                               ![k].detail = p.detail,
                                               ![k].wg = IF p.hasLink THEN 1 ELSE 0]
                     /\ UNCHANGED <<proc, exitAt>>

\* lines 120-134: the GET of the detail page returns.  After a transport
\* error resp is nil and resp.StatusCode (line 124) is a nil dereference;
\* after a read error the crawler sends MovDetail{} (line 133).
CR_Get(k) ==
    /\ proc = "running" /\ crawl[k].pc = "get"
    /\ requested' = requested \cup {crawl[k].cUrl}
    /\ LET resp == Web(crawl[k].cUrl)
       IN  IF resp.err
           THEN Panic("crawlForMoreInfo:resp.StatusCode")
                /\ UNCHANGED <<crawl, summ, started>>
           ELSE IF resp.readErr
           THEN /\ crawl' = [crawl EXCEPT ![k].pc = "sendZero",
                                          ![k].respBody = resp.body]
                /\ UNCHANGED <<proc, exitAt, summ, started>>
           ELSE CrawlBody(k, resp.body)
    /\ UNCHANGED <<outOfOrder, wrote, args, stdout, main, parserChan, orch, imdbChartTable, title,
                   rating, crawlChan>>

\* line 133: the send of MovDetail{} after a read error
CR_SendZero(k) ==
    /\ proc = "running" /\ crawl[k].pc = "sendZero"
    /\ IF crawlChan[k].state = "closed"
       THEN /\ SendOnClosed(k, "crawlForMoreInfo:send on closed channel")
            /\ UNCHANGED crawl
       ELSE /\ Receive(k, ZeroMovDetail)
            /\ crawl' = [crawl EXCEPT ![k].pc = "parse"]
            /\ UNCHANGED <<proc, exitAt>>
    /\ UNCHANGED <<started, args, stdout, requested, main, parserChan, rating, summ>>

\* lines 135-200 after the send of line 133: the crawler goes on
CR_Parse(k) ==
    /\ proc = "running" /\ crawl[k].pc = "parse"
    /\ CrawlBody(k, crawl[k].respBody)
    /\ UNCHANGED <<outOfOrder, wrote, args, stdout, requested, main, parserChan, orch, imdbChartTable,
                   title, rating, crawlChan>>

\* lines 202-209: wg.Wait returns once the full-summary task is done, and
\* the crawler sends the detail record
CR_Send(k) ==
    /\ proc = "running" /\ crawl[k].pc = "wait" /\ wgWait(crawl[k].wg)
    /\ IF crawlChan[k].state = "closed"
       THEN /\ SendOnClosed(k, "crawlForMoreInfo:send on closed channel")
            /\ UNCHANGED crawl
       ELSE /\ Receive(k, [Summary |-> crawl[k].summaryData,
                           Duration |-> crawl[k].detail.Duration,
                           Genre |-> crawl[k].detail.Genre])
            /\ crawl' = [crawl EXCEPT ![k].pc = "done"]
            /\ UNCHANGED <<proc, exitAt>>
    /\ UNCHANGED <<started, args, stdout, requested, main, parserChan, rating, summ>>

\* lines 173-176 and the deferred wg.Done of line 156: the task replaces
\* the summary by the paragraph of the page and signals the crawler
SummBody(k, respBody) ==
    LET p == summaryOf[respBody]
    IN  IF p.stage = "panic"
        THEN Panic("crawlForMoreInfo.func1:slice") /\ UNCHANGED <<crawl, summ>>
        ELSE /\ crawl' = [crawl EXCEPT ![k].summaryData = p.Summary,
                                       ![k].wg = @ - 1]
             /\ summ' = [summ EXCEPT ![k].pc = "done", ![k].respBody = respBody]
             /\ UNCHANGED <<proc, exitAt>>

\* lines 158-172: the GET of the full-summary page returns
SM_Get(k) ==
    /\ proc = "running" /\ summ[k].pc = "get"
    /\ requested' = requested \cup {summ[k].url}
    /\ LET resp == Web(summ[k].url)
       IN  IF resp.err
           THEN Panic("crawlForMoreInfo.func1:resp.StatusCode")
                /\ UNCHANGED <<crawl, summ>>
           ELSE IF resp.readErr
           THEN /\ summ' = [summ EXCEPT ![k].pc = "sendZero",
                                        ![k].respBody = resp.body]
                /\ UNCHANGED <<proc, exitAt, crawl>>
           ELSE SummBody(k, resp.body)
    /\ UNCHANGED <<outOfOrder, wrote, started, args, stdout, main, parserChan, orch, imdbChartTable, title,
                   rating, crawlChan>>

\* line 171: the send of MovDetail{} by the task after a read error
SM_SendZero(k) ==
    /\ proc = "running" /\ summ[k].pc = "sendZero"
    /\ IF crawlChan[k].state = "closed"
       THEN /\ SendOnClosed(k, "crawlForMoreInfo.func1:send on closed channel")
            /\ UNCHANGED summ
       ELSE /\ Receive(k, ZeroMovDetail)
            /\ summ' = [summ EXCEPT ![k].pc = "parse"]
            /\ UNCHANGED <<proc, exitAt>>
    /\ UNCHANGED <<started, args, stdout, requested, main, parserChan, rating, crawl>>

\* lines 173-176 after the send of line 171
SM_Parse(k) ==
    /\ proc = "running" /\ summ[k].pc = "parse"
    /\ SummBody(k, summ[k].respBody)
    /\ UNCHANGED <<outOfOrder, wrote, started, args, stdout, requested, main, parserChan, orch, imdbChartTable,
                   title, rating, crawlChan>>

Next ==
    \/ MainArgs
    \/ MainGet
    \/ MainReturn
    \/ PT_Start
    \/ PT_Launch
    \/ PT_Wait
    \/ PT_Send
    \/ \E k \in Rows : GT_Start(k)
    \/ \E k \in Rows : GetRating(k)
    \/ \E k \in Rows : CR_Get(k)
    \/ \E k \in Rows : CR_SendZero(k)
    \/ \E k \in Rows : CR_Parse(k)
    \/ \E k \in Rows : CR_Send(k)
    \/ \E k \in Rows : SM_Get(k)
    \/ \E k \in Rows : SM_SendZero(k)
    \/ \E k \in Rows : SM_Parse(k)

Spec == Init /\ [][Next]_vars

\* the scheduler of Go lets every goroutine that can run take its steps,
\* and every GET of the model returns
FairSpec == Spec /\ WF_vars(Next)

(***************************************************************************)
(* Properties                                                              *)
(***************************************************************************)
\* the row fragments of the table, the first two fragments left out
AvailableRows == fragmentsOf[orch.table].recSlc

\* the detail record of a detail page URL, worked out sequentially: the
\* first record a crawler of that URL sends
ExpectedDetail(url) ==
    LET r == Web(url)
        p == crawlOf[r.body]
        r2 == Web(p.fullSummaryUrl)
    IN  IF r.readErr THEN ZeroMovDetail
        ELSE IF ~p.hasLink THEN p.detail
        ELSE IF r2.readErr THEN ZeroMovDetail
        ELSE [p.detail EXCEPT !.Summary = summaryOf[r2.body].Summary]

\* the record of a row fragment
ExpectedRecord(frag) ==
    [Title |-> titleOf[frag].Title,
     ReleaseYear |-> titleOf[frag].ReleaseYear,
     MovDetail |-> ExpectedDetail(titleOf[frag].url),
     Rating |-> ratingOf[frag].Rating]

\* C1: once parseTableData has serialized the batch, element i of the batch
\* is the record of the i-th row fragment of the table, and the JSON text it
\* delivers is the serialization of those records in row order, whatever
\* the order in which the goroutines finished.
C1_OrderPreserved ==
    orch.pc \in {"send", "done"} =>
        /\ \A i \in 1..Len(imdbChartTable) :
              imdbChartTable[i] = ExpectedRecord(AvailableRows[i])
        /\ orch.imdbChart =
              Marshal([i \in 1..Len(imdbChartTable) |->
                          ExpectedRecord(AvailableRows[i])]).text
        /\ \A n \in 1..Len(stdout) : stdout[n] = orch.imdbChart

\* a batch of two different rows has been delivered and printed after a
\* goroutine of the second row finished before one of the first row
C1_Witness ==
    /\ orch.pc = "done" /\ Len(stdout) = 1
    /\ Len(imdbChartTable) >= 2
    /\ imdbChartTable[1] # imdbChartTable[2]
    /\ outOfOrder

\* C2: every count that passes the argument checks yields a batch whose
\* length is the count, or the number of rows when the count is greater,
\* and the clamp and the allocation never fail.
C2_LengthIsClampedCount ==
    /\ ~(proc = "panic" /\ exitAt = "parseTableData:make")
    /\ orch.pc \in {"loop", "send", "done"} =>
          Len(imdbChartTable) =
             IF main.item_count <= Len(AvailableRows)
             THEN main.item_count ELSE Len(AvailableRows)

\* the detail fetch of the row of index k fails: transport error, status
\* other than 200, or read error
DetailFetchFails(k) ==
    /\ crawl[k].cUrl # ""
    /\ \/ Web(crawl[k].cUrl).err
       \/ Web(crawl[k].cUrl).status # StatusOK
       \/ Web(crawl[k].cUrl).readErr

\* C3: a row whose detail fetch fails does not crash the process, and once
\* its row processor is done its record has empty summary, duration and
\* genre and the title and year of its row fragment.
C3_DetailFailureIsolated ==
    \A k \in Rows :
        DetailFetchFails(k) =>
            /\ ~(proc = "panic" /\ exitAt = "crawlForMoreInfo:resp.StatusCode")
            /\ title[k].pc = "done" =>
                  /\ imdbChartTable[k].MovDetail = ZeroMovDetail
                  /\ imdbChartTable[k].Title = titleOf[AvailableRows[k]].Title
                  /\ imdbChartTable[k].ReleaseYear =
                        titleOf[AvailableRows[k]].ReleaseYear

\* C4: once parseTableData has allocated the batch, the JSON text is
\* eventually delivered to main and printed (every fetch returns and every
\* goroutine is scheduled: FairSpec).
C4_EventuallyDelivered == (orch.pc = "loop") ~> (Len(stdout) = 1)

\* C5: a run that has ended has either printed exactly one JSON array and
\* left main, or ended in a fatal log having printed nothing.
C5_TwoOutcomes ==
    proc # "running" =>
        \/ proc = "exit0" /\ Len(stdout) = 1
        \/ proc = "fatal" /\ stdout = <<>>

\* C6: a row processor that could not parse the year of its row has written
\* the year 0 to its slot.
C6_UnparsedYearIsZero ==
    \A k \in Rows :
        /\ title[k].pc \in {"recv", "done"}
        /\ titleOf[title[k].movieRec].yearErr # "nil"
        => imdbChartTable[title[k].slot].ReleaseYear = "0"

\* the chart URLs of lines 67-69
AllowList == {chart_url_Indian, chart_url_Tamil, chart_url_Telugu}

\* C7: with a URL argument that is none of the three chart URLs, main never
\* gets past its argument checks: no GET is issued, parseTableData and the
\* processors are never started, nothing is printed, and the only way the
\* process ends is a fatal log.
C7_UnlistedUrlIsFatal ==
    (Len(args) >= 2 /\ OsArg(args, 1) \notin AllowList) =>
        /\ main.pc = "args"
        /\ requested = {}
        /\ orch.pc = "none" /\ parserChan.state = "none"
        /\ imdbChartTable = <<>>
        /\ stdout = <<>>
        /\ proc \in {"running", "fatal"}

\* validateUrl has rejected an unlisted URL
C7_Witness ==
    /\ Len(args) >= 3 /\ OsArg(args, 1) \notin AllowList
    /\ proc = "fatal" /\ exitAt = "validateUrl"

\* the GET of the chart page has returned and failed
ChartFetchFailed ==
    /\ main.resp # NoResponse
    /\ main.resp.err \/ main.resp.status # StatusOK \/ main.resp.readErr

\* C8: a failed fetch of the chart page ends the process in a fatal log:
\* parseTableData is not started, no processor is launched, no other GET
\* is issued and nothing is printed.
C8_ChartFetchFailureIsFatal ==
    ChartFetchFailed =>
        /\ proc = "fatal"
        /\ orch.pc = "none" /\ parserChan.state = "none"
        /\ imdbChartTable = <<>>
        /\ requested = {OsArg(args, 1)}
        /\ stdout = <<>>

\* the chart page answered with a status other than 200 and a page that
\* holds a table, and the process ended in the fatal log of line 350
C8_Witness ==
    /\ ChartFetchFailed /\ main.resp.status # StatusOK
    /\ tableOf[main.resp.body].stage = "ok"
    /\ proc = "fatal" /\ exitAt = "main:StatusCode"

\* C9: on the channel of every row at most one send is performed or
\* attempted and at most one value is received.
C9_OneSendPerChannel ==
    \A k \in Rows : crawlChan[k].sends <= 1 /\ crawlChan[k].recvs <= 1

\* C10: no send has been attempted on a closed channel, neither on the
\* channel of a row nor on parserChan.
C10_NoSendOnClosed ==
    /\ \A k \in Rows :
          ~(crawlChan[k].state = "closed" /\ crawlChan[k].sends > crawlChan[k].recvs)
    /\ ~(parserChan.state = "closed" /\ parserChan.sends > parserChan.recvs)

\* the fields of a slot
SlotFields == {"Title", "ReleaseYear", "MovDetail", "Rating"}

\* C11: every write of the title, the year or the detail fields of slot i
\* is by the getTitleData started for index i, every write of the rating
\* of slot i is by the getRating started for index i, and no other
\* goroutine (no crawler, no full-summary task) writes a slot: no field of
\* a slot has two writers.
C11_SlotsPartitioned ==
    \A i \in DOMAIN wrote :
        \A w \in wrote[i] :
            /\ w.field \in SlotFields
            /\ w.field = "Rating" => w.by = <<"getRating", i>>
            /\ w.field # "Rating" => w.by = <<"getTitleData", i>>

\* every field of two slots has been written
C11_Witness ==
    /\ Len(wrote) >= 2
    /\ \A i \in DOMAIN wrote : {w.field : w \in wrote[i]} = SlotFields

\* the row and rating processors launched that have not signalled wg
PendingProcessors ==
    Cardinality({k \in Rows : title[k].pc \in {"start", "recv"}})
    + Cardinality({k \in Rows : rating[k].pc = "start"})

\* C12 (as the code has it): the counter of wg is the number of launched
\* processors that have not signalled, so it is never zero while a launched
\* processor is running; and once json.Marshal has read the batch, every
\* slot's two processors have been launched, have written their fields and
\* have signalled, and the counter is zero.
C12_SerializedAfterAll ==
    /\ orch.wg = PendingProcessors
    /\ orch.pc \in {"send", "done"} =>
          /\ orch.wg = 0
          /\ orch.i = Len(imdbChartTable)
          /\ \A k \in Rows :
                /\ title[k].pc = "done" /\ rating[k].pc = "done"
                /\ {w.field : w \in wrote[k]} = SlotFields

\* a batch of two rows has been serialized
C12_Witness == orch.pc = "send" /\ Len(imdbChartTable) >= 2

\* C12 (as stated): besides the above, the counter never was zero while a
\* processor was still to be launched or still running.
C12_NeverZeroBeforeAllDone ==
    /\ C12_SerializedAfterAll
    /\ (orch.pc = "loop" /\ orch.i > 0 /\ (LoopGoesOn \/ PendingProcessors > 0))
          => orch.wg # 0

\* C13: for a row whose summary links to a full summary (a full-summary
\* task has been started), nothing is sent on the row's channel before the
\* task has finished, and the summary the row processor has received is
\* the paragraph the task took from the full-summary page.
C13_RecordAfterSummaryTask ==
    \A k \in Rows :
        summ[k].pc # "none" =>
            /\ crawlChan[k].sends > 0 => summ[k].pc = "done"
            /\ title[k].pc = "done" =>
                  imdbChartTable[k].MovDetail.Summary =
                     summaryOf[Web(summ[k].url).body].Summary

\* C14: a row processor that has signalled wg has received its detail
\* record; and while the GET of the detail page or of the full-summary
\* page of any row has not returned, parseTableData has not got past
\* wg.Wait and nothing has been printed.
C14_BlockedWhileFetching ==
    \A k \in Rows :
        /\ title[k].pc = "done" => crawlChan[k].recvs >= 1
        /\ (crawl[k].pc = "get" \/ summ[k].pc = "get") =>
              /\ orch.pc \notin {"send", "done"}
              /\ stdout = <<>>

\* C15: a rating processor that could not parse the rating of its row has
\* written 0.0 to its slot, and the serialization of the batch never ends
\* in the fatal log of line 316.
C15_UnparsedRatingIsZero ==
    /\ \A k \in Rows :
          /\ rating[k].pc = "done"
          /\ ratingOf[rating[k].movieRec].err # "nil"
          => imdbChartTable[rating[k].slot].Rating = ZeroFloat
    /\ ~(proc = "fatal" /\ exitAt = "parseTableData:Marshal")

\* the places where an extraction step slices a text by the offsets of
\* its markers
ExtractionSteps ==
    {"getTitleData:slice", "getRating:slice", "crawlForMoreInfo:slice",
     "crawlForMoreInfo.func1:slice"}

\* C16: no extraction step of a row processor, a rating processor, a
\* crawler or a full-summary task ends in an out-of-range slice, whatever
\* markers the text it scans lacks.
C16_NoSlicePanic == ~(proc = "panic" /\ exitAt \in ExtractionSteps)

\* the number of rows that get processors: the count asked for, or the
\* number of rows when the count is greater
ClampedCount ==
    IF main.item_count <= Len(AvailableRows)
    THEN main.item_count ELSE Len(AvailableRows)

\* the detail page URL of the row of index k
DetailUrl(k) == titleOf[AvailableRows[k]].url

\* the go statements executed so far that started fn with the text arg
Started(fn, arg) == CopiesIn([task |-> fn, arg |-> arg], started)

\* C17: the loop has launched processors for the first orch.i rows only,
\* never more than the clamped count and all of them once it has ended;
\* the row fragment of every launched index has been handed to exactly one
\* getTitleData and exactly one getRating, nothing else has been handed to
\* a processor, a crawler has been started at most once per launched row
\* and exactly once for a row whose getTitleData has passed its go
\* statement, and no other detail page is fetched.
C17_EachRowHandedOnce ==
    orch.pc \in {"loop", "send", "done"} =>
        /\ orch.i <= ClampedCount
        /\ ~LoopGoesOn => orch.i = ClampedCount
        /\ \A fn \in {"getTitleData", "getRating"} :
              /\ \A i \in 1..orch.i :
                    Started(fn, AvailableRows[i]) =
                       Cardinality({j \in 1..orch.i : AvailableRows[j] = AvailableRows[i]})
              /\ \A x \in BagToSet(started) :
                    x.task = fn => \E i \in 1..orch.i : x.arg = AvailableRows[i]
        /\ \A x \in BagToSet(started) :
              x.task = "crawlForMoreInfo" =>
                 /\ Started("crawlForMoreInfo", x.arg) <=
                       Cardinality({k \in 1..orch.i : DetailUrl(k) = x.arg})
                 /\ Started("crawlForMoreInfo", x.arg) >=
                       Cardinality({k \in 1..orch.i :
                                       /\ title[k].pc \in {"recv", "done"}
                                       /\ DetailUrl(k) = x.arg})
        /\ \A k \in Rows :
              title[k].pc \in {"recv", "done"} => Started("crawlForMoreInfo", DetailUrl(k)) >= 1
        /\ \A k \in Rows : crawl[k].cUrl \in {"", DetailUrl(k)}
        /\ requested \subseteq
              {OsArg(args, 1)}
              \cup {DetailUrl(k) : k \in 1..ClampedCount}
              \cup {crawlOf[Web(DetailUrl(k)).body].fullSummaryUrl : k \in 1..ClampedCount}

\* a run has delivered a batch that is shorter than the table: a row
\* beyond the count got no processor
C17_Witness ==
    /\ orch.pc = "done"
    /\ Len(imdbChartTable) >= 1
    /\ Len(AvailableRows) > Len(imdbChartTable)
    /\ BagCardinality(started) = 3 * Len(imdbChartTable)

\* the goroutines started by parseTableData, directly or through the
\* goroutines it started, that have not returned
LiveTasks ==
    IF proc # "running" THEN 0
    ELSE Cardinality({k \in Rows : title[k].pc \in {"start", "recv"}})
         + Cardinality({k \in Rows : rating[k].pc = "start"})
         + Cardinality({k \in Rows : crawl[k].pc \in {"get", "sendZero", "parse", "wait"}})
         + Cardinality({k \in Rows : summ[k].pc \in {"get", "sendZero", "parse"}})

\* the go statements executed so far that started fn
StartedOf(fn) ==
    BagCardinality([x \in {y \in BagToSet(started) : y.task = fn} |-> CopiesIn(x, started)])

\* C18 (as the code has it): at most one getTitleData, one getRating, one
\* crawlForMoreInfo and one full-summary task are ever started per slot of
\* the batch, so never more than 4 x (batch length) goroutines are live.
C18_AtMostFourPerRow ==
    /\ StartedOf("getTitleData") <= Len(imdbChartTable)
    /\ StartedOf("getRating") <= Len(imdbChartTable)
    /\ StartedOf("crawlForMoreInfo") <= Len(imdbChartTable)
    /\ StartedOf("crawlForMoreInfo.func1") <= Len(imdbChartTable)
    /\ LiveTasks <= BagCardinality(started)
    /\ LiveTasks <= 4 * Len(imdbChartTable)

\* all four goroutines of every row of a batch are live at once
C18_Witness ==
    /\ Len(imdbChartTable) >= 1
    /\ LiveTasks = 4 * Len(imdbChartTable)

\* C18 (as stated): never more than 3 x (batch length) goroutines are live.
C18_AtMostThreePerRow == LiveTasks <= 3 * Len(imdbChartTable)

\* the JSON text of the inputs of a run: the body of the chart page, the
\* count asked for and the responses of the web
ExpectedJson ==
    LET rows == fragmentsOf[tableOf[main.resp.body].table].recSlc
        n == IF main.item_count <= Len(rows) THEN main.item_count ELSE Len(rows)
    IN  Marshal([i \in 1..n |-> ExpectedRecord(rows[i])]).text

\* C19: whatever the order in which the goroutines ran, what a run has
\* delivered and printed is the JSON text that the chart page, the count
\* and the responses of the detail and full-summary pages determine; so two
\* runs on the same inputs print the same array.
C19_OutputIsFunctionOfInputs ==
    /\ orch.pc = "done" => Len(stdout) = 1
    /\ \A n \in 1..Len(stdout) : stdout[n] = ExpectedJson

\* a run has printed a batch of two rows, one of them with a full summary,
\* after a goroutine of the second row finished before one of the first
C19_Witness ==
    /\ Len(stdout) = 1 /\ proc = "exit0"
    /\ Len(imdbChartTable) >= 2
    /\ \E k \in Rows : summ[k].pc = "done"
    /\ outOfOrder

====
